---- MODULE Spec2Model ----
(***************************************************************************)
(* Scan-and-scroll pagination of suzuken/elastic (scan.go): the            *)
(* ScanService request builder, its Do call, and the ScanCursor state      *)
(* machine (Next, TotalHits).                                              *)
(*                                                                         *)
(* Strings that the claims look into character by character (the request   *)
(* path) are sequences of one-character strings; opaque strings (scroll    *)
(* tokens, keep-alive values, documents) are TLA+ strings.                 *)
(***************************************************************************)
EXTENDS Integers, Sequences, FiniteSets, TLC

VARIABLES svc, cursor, wire, ret, lastDecoded, seen, stub, added, duo, race, mtv

vars == <<svc, cursor, wire, ret, lastDecoded, seen, stub, added, duo, race, mtv>>

\* the state of the other parts of the model: two cursors side by side (duo),
\* one cursor stepped by two threads (race), MultiTermvectorService (mtv)
others == <<duo, race, mtv>>

\* the state of one ScanService, its cursor and its transport
scanVars == <<svc, cursor, wire, ret, lastDecoded, seen, stub, added>>

(***************************************************************************)
(* Bounds                                                                  *)
(***************************************************************************)
\* most transport calls (initiation + continuation) of an unscripted behaviour
MaxCalls == 3
\* longest list of index names / type names a ScanService accumulates
MaxNames == 2
\* largest total-hit count / size hint drawn as an input
MaxTotal == 1
\* most step calls a scripted run records
MaxSteps == 6

\* the pages with documents that a server sends before the empty page
MaxPages == 2

\* the pages returned by each of two cursors
MaxDuoPages == 2

\* the Do calls on a MultiTermvectorService that reach the client, and the
\* documents added to it
MaxMtvCalls == 1

MaxMtvDocs == 1

(***************************************************************************)
(* Values                                                                  *)
(***************************************************************************)
\* a JSON field that the response body does not carry
Absent == "<absent>"

\* const defaultKeepAlive = "5m"
defaultKeepAlive == "5m"

\* var EOS = errors.New("EOS")
EOS == "EOS"

\* var ErrNoScrollId = errors.New("elastic: No scrollId")
ErrNoScrollId == "elastic: No scrollId"

\* scroll ids a server may issue ("" is the empty string)
Tokens == {"", "t1", "t2"}

\* the document lists (hits.hits) a response may carry
DocSeqs == {<<>>, <<"d1">>}

\* keep-alive strings a caller passes to Scroll / KeepAlive
KeepAlives == {"", "1m"}

\* queries a caller passes to Query (nil removes the query)
Queries == {"nil", "match_all", "q1"}

\* index and type names, as character sequences
Names == {<<"a">>, <<"b", "/">>}

(***************************************************************************)
(* SearchResult, as scan.go uses it: ScrollId string, Hits *SearchHits     *)
(* with TotalHits int64 and Hits []*SearchHit.                             *)
(***************************************************************************)
\* a nil *SearchHits
NilHits == [nil |-> TRUE, TotalHits |-> 0, Hits |-> <<>>]

\* the zero SearchHits struct a decoder allocates behind a nil pointer
ZeroHits == [nil |-> FALSE, TotalHits |-> 0, Hits |-> <<>>]

\* new(SearchResult)
ZeroResult == [ScrollId |-> "", Hits |-> NilHits]

(***************************************************************************)
(* Response bodies (well-formed JSON objects).  Each consumed field is     *)
(* present or absent; "hits" may also be the JSON null.  total = -1 and    *)
(* hasDocs = FALSE stand for an absent hits.total and hits.hits.           *)
(***************************************************************************)
HitsAbsent == [kind |-> "absent", total |-> -1, hasDocs |-> FALSE, docs |-> <<>>]

HitsNull == [kind |-> "null", total |-> -1, hasDocs |-> FALSE, docs |-> <<>>]

HitsObjects ==
  {[kind |-> "obj", total |-> t, hasDocs |-> TRUE, docs |-> d] :
      t \in (-1 .. MaxTotal), d \in DocSeqs}
  \cup {[kind |-> "obj", total |-> t, hasDocs |-> FALSE, docs |-> <<>>] :
      t \in (-1 .. MaxTotal)}

Responses ==
  [scroll_id : Tokens \cup {Absent}, hits : {HitsAbsent, HitsNull} \cup HitsObjects]

(***************************************************************************)
(* json.NewDecoder(res.Body).Decode(target): encoding/json writes the      *)
(* fields the body carries into the existing target and leaves the others  *)
(* as they are; an object is decoded into the struct an existing non-nil   *)
(* pointer refers to; null sets a pointer to nil; an array replaces the    *)
(* slice.                                                                  *)
(***************************************************************************)
\* a decoder that appends a decoded array to the slice instead of replacing it
DecodeHits_Append(old, h) ==
  CASE h.kind = "absent" -> old
    [] h.kind = "null" -> NilHits
    [] OTHER ->
         LET base == IF old.nil THEN ZeroHits ELSE old
         IN [nil |-> FALSE,
             TotalHits |-> IF h.total = -1 THEN base.TotalHits ELSE h.total,
             Hits |-> IF h.hasDocs THEN base.Hits \o h.docs ELSE base.Hits]

DecodeHits(old, h) ==
  CASE h.kind = "absent" -> old
    [] h.kind = "null" -> NilHits
    [] OTHER ->
         LET base == IF old.nil THEN ZeroHits ELSE old
         IN [nil |-> FALSE,
             TotalHits |-> IF h.total = -1 THEN base.TotalHits ELSE h.total,
             Hits |-> IF h.hasDocs THEN h.docs ELSE base.Hits]

DecodeInto(target, r) ==
  [ScrollId |-> IF r.scroll_id = Absent THEN target.ScrollId ELSE r.scroll_id,
   Hits |-> DecodeHits(target.Hits, r.hits)]

(***************************************************************************)
(* ScanService                                                             *)
(***************************************************************************)
\* NewScanService: query is NewMatchAllQuery(), everything else zero
NewScanService ==
  [indices |-> <<>>, types |-> <<>>, keepAlive |-> "", query |-> "match_all",
   size |-> -1, pretty |-> FALSE, debug |-> FALSE]

\* a ScanCursor that has not been created yet
NoCursor ==
  [made |-> FALSE, Results |-> ZeroResult, keepAlive |-> "", pretty |-> FALSE,
   debug |-> FALSE, currentPage |-> 0]

\* NewScanCursor(client, keepAlive, pretty, debug, searchResult)
NewScanCursor(keepAlive, pretty, debug, searchResult) ==
  [made |-> TRUE, Results |-> searchResult, keepAlive |-> keepAlive,
   pretty |-> pretty, debug |-> debug, currentPage |-> 0]

(***************************************************************************)
(* Observation of a call (history, not program state).                     *)
(*   ret         the last call: what it returned, how many requests it     *)
(*               sent, whether it changed the cursor, and what the cursor  *)
(*               held when it was made                                     *)
(*   lastDecoded what the most recently received response (initiation or   *)
(*               successful step) decodes to on its own                    *)
(*   seen        whether a step has returned a terminal page / EOS, and    *)
(*               how many continuation responses Next has decoded          *)
(*   wire        the requests sent to the transport, in order              *)
(*   added       the names passed to Index / Indices and to Type / Types,  *)
(*               in call order                                             *)
(***************************************************************************)
\* a page with no hits data, no documents or a total-hit count of zero
TerminalPage(p) == p.Hits.nil \/ p.Hits.Hits = <<>> \/ p.Hits.TotalHits = 0

NoPre == [ScrollId |-> "", currentPage |-> 0, terminal |-> TRUE, respToken |-> ""]

NoRet ==
  [op |-> "none", kind |-> "none", page |-> ZeroResult, value |-> 0, sent |-> 0,
   changed |-> FALSE, cfgChanged |-> FALSE, pre |-> NoPre,
   afterTerminal |-> FALSE, afterEOS |-> FALSE]

\* the result of a call: the error (or "page", "cursor", "value" when there is
\* none), the *SearchResult returned (ZeroResult for nil) and the int64
Ret(op, kind, page, value) ==
  [op |-> op, kind |-> kind, page |-> page, value |-> value,
   sent |-> Len(wire') - Len(wire),
   changed |-> cursor' # cursor,
   cfgChanged |-> svc' # svc,
   pre |-> [ScrollId |-> cursor.Results.ScrollId,
            currentPage |-> cursor.currentPage,
            terminal |-> TerminalPage(cursor.Results),
            respToken |-> lastDecoded.ScrollId],
   afterTerminal |-> seen.terminal,
   afterEOS |-> seen.eos]

(***************************************************************************)
(* The transport.  Unscripted, it may fail or answer any request with any  *)
(* response.  Scripted (a stub loaded with responses), it answers the      *)
(* requests with the responses of the script, in order, and the outcomes   *)
(* of the step calls are recorded.                                         *)
(***************************************************************************)
NoStub == [scripted |-> FALSE, loaded |-> <<>>, script |-> <<>>, outcomes |-> <<>>]

CanReply(r) == stub.scripted => (stub.script # <<>> /\ r = Head(stub.script))

CanFail == ~stub.scripted

\* a scripted run is bounded by its script
CanSend == stub.scripted \/ Len(wire) < MaxCalls

CanStep == stub.scripted => Len(stub.outcomes) < MaxSteps

StubLog(s, kind, page) ==
  IF s.scripted THEN [s EXCEPT !.outcomes = Append(@, [kind |-> kind, page |-> page])]
  ELSE s

StubServe(s) == IF s.scripted THEN [s EXCEPT !.script = Tail(@)] ELSE s

(***************************************************************************)
(* Request construction                                                    *)
(***************************************************************************)
RECURSIVE Join(_, _)
\* strings.Join(parts, sep)
Join(parts, sep) ==
  IF Len(parts) = 0 THEN <<>>
  ELSE IF Len(parts) = 1 THEN parts[1]
  ELSE parts[1] \o sep \o Join(Tail(parts), sep)

RECURSIVE cleanPathString(_)
\* cleanPathString(s): path-escapes a name, so that the result has no "/"
cleanPathString(s) ==
  IF Len(s) = 0 THEN <<>>
  ELSE (IF s[1] = "/" THEN <<"%", "2", "F">> ELSE <<s[1]>>)
         \o cleanPathString(Tail(s))

\* ScanService.Do, "Build url": the path before the "?"
DoPath(s) ==
  LET indexPart == [i \in 1 .. Len(s.indices) |-> cleanPathString(s.indices[i])]
      typesPart == [i \in 1 .. Len(s.types) |-> cleanPathString(s.types[i])]
      urls0 == <<"/">>
      urls1 == IF Len(indexPart) > 0 THEN urls0 \o Join(indexPart, <<",">>)
               ELSE urls0
      urls2 == IF Len(typesPart) > 0 THEN urls1 \o <<"/">> \o Join(typesPart, <<",">>)
               ELSE urls1
  IN urls2 \o <<"/", "_", "s", "e", "a", "r", "c", "h">>

\* ScanService.Do, "Parameters" (size = -1: not set)
DoParams(s) ==
  [search_type |-> "scan",
   pretty |-> IF s.pretty THEN "true" ELSE Absent,
   scroll |-> IF s.keepAlive # "" THEN s.keepAlive ELSE defaultKeepAlive,
   size |-> IF s.size # -1 /\ s.size > 0 THEN s.size ELSE -1]

\* ScanService.Do, "Set body": {"query": s.query.Source()} unless query is nil
DoBody(s) ==
  [raw |-> FALSE, text |-> "", query |-> IF s.query # "nil" THEN s.query ELSE Absent]

DoRequest(s) ==
  [method |-> "POST", path |-> DoPath(s), params |-> DoParams(s), body |-> DoBody(s)]

\* ScanCursor.Next, "Build url"
NextPath == <<"/", "_", "s", "e", "a", "r", "c", "h", "/", "s", "c", "r", "o", "l", "l">>

\* a Next whose scroll parameter ignores the cursor's keepAlive
NextParams_DefaultOnly(c) ==
  [search_type |-> Absent,
   pretty |-> IF c.pretty THEN "true" ELSE Absent,
   scroll |-> defaultKeepAlive,
   size |-> -1]

\* ScanCursor.Next, "Parameters"
NextParams(c) ==
  [search_type |-> Absent,
   pretty |-> IF c.pretty THEN "true" ELSE Absent,
   scroll |-> IF c.keepAlive # "" THEN c.keepAlive ELSE defaultKeepAlive,
   size |-> -1]

\* ScanCursor.Next, "Set body": req.SetBodyString(c.Results.ScrollId)
NextBody(c) == [raw |-> TRUE, text |-> c.Results.ScrollId, query |-> Absent]

NextRequest(c) ==
  [method |-> "POST", path |-> NextPath, params |-> NextParams(c), body |-> NextBody(c)]

(***************************************************************************)
(* ScanService builder methods                                             *)
(***************************************************************************)
Index(index) ==
  /\ UNCHANGED others
  /\ Len(svc.indices) < MaxNames
  /\ svc' = [svc EXCEPT !.indices = Append(@, index)]
  /\ added' = [added EXCEPT !.indices = @ \o <<index>>]
  /\ UNCHANGED <<cursor, wire, ret, lastDecoded, seen, stub>>

\* an Indices that stores the batch in place of the list
Indices_Replace(indices) ==
  /\ UNCHANGED others
  /\ Len(svc.indices) + Len(indices) <= MaxNames
  /\ svc' = [svc EXCEPT !.indices = indices]
  /\ added' = [added EXCEPT !.indices = @ \o indices]
  /\ UNCHANGED <<cursor, wire, ret, lastDecoded, seen, stub>>

Indices(indices) ==
  /\ UNCHANGED others
  /\ Len(svc.indices) + Len(indices) <= MaxNames
  /\ svc' = [svc EXCEPT !.indices = @ \o indices]
  /\ added' = [added EXCEPT !.indices = @ \o indices]
  /\ UNCHANGED <<cursor, wire, ret, lastDecoded, seen, stub>>

Type(typ) ==
  /\ UNCHANGED others
  /\ Len(svc.types) < MaxNames
  /\ svc' = [svc EXCEPT !.types = Append(@, typ)]
  /\ added' = [added EXCEPT !.types = @ \o <<typ>>]
  /\ UNCHANGED <<cursor, wire, ret, lastDecoded, seen, stub>>

Types(types) ==
  /\ UNCHANGED others
  /\ Len(svc.types) + Len(types) <= MaxNames
  /\ svc' = [svc EXCEPT !.types = @ \o types]
  /\ added' = [added EXCEPT !.types = @ \o types]
  /\ UNCHANGED <<cursor, wire, ret, lastDecoded, seen, stub>>

Scroll(keepAlive) ==
  /\ UNCHANGED <<added, others>>
  /\ svc' = [svc EXCEPT !.keepAlive = keepAlive]
  /\ UNCHANGED <<cursor, wire, ret, lastDecoded, seen, stub>>

KeepAlive(keepAlive) ==
  /\ UNCHANGED <<added, others>>
  /\ svc' = [svc EXCEPT !.keepAlive = keepAlive]
  /\ UNCHANGED <<cursor, wire, ret, lastDecoded, seen, stub>>

Query(query) ==
  /\ UNCHANGED <<added, others>>
  /\ svc' = [svc EXCEPT !.query = query]
  /\ UNCHANGED <<cursor, wire, ret, lastDecoded, seen, stub>>

Pretty(pretty) ==
  /\ UNCHANGED <<added, others>>
  /\ svc' = [svc EXCEPT !.pretty = pretty]
  /\ UNCHANGED <<cursor, wire, ret, lastDecoded, seen, stub>>

Debug(debug) ==
  /\ UNCHANGED <<added, others>>
  /\ svc' = [svc EXCEPT !.debug = debug]
  /\ UNCHANGED <<cursor, wire, ret, lastDecoded, seen, stub>>

Size(size) ==
  /\ UNCHANGED <<added, others>>
  /\ svc' = [svc EXCEPT !.size = size]
  /\ UNCHANGED <<cursor, wire, ret, lastDecoded, seen, stub>>

(***************************************************************************)
(* ScanService.Do: one action per way out of the function.  The model      *)
(* follows the one cursor a successful Do returns.                         *)
(***************************************************************************)
\* s.client.NewRequest fails: nothing is sent
DoNewRequestErr ==
  /\ UNCHANGED <<added, others>>
  /\ ~cursor.made
  /\ UNCHANGED <<svc, cursor, wire, lastDecoded, seen, stub>>
  /\ ret' = Ret("Do", "ErrNewRequest", ZeroResult, 0)

\* s.client.c.Do fails ("ErrTransport") or checkResponse rejects the status
\* ("ErrStatus")
DoTransportErr(kind) ==
  /\ UNCHANGED <<added, others>>
  /\ ~cursor.made
  /\ CanFail
  /\ CanSend
  /\ wire' = Append(wire, DoRequest(svc))
  /\ UNCHANGED <<svc, cursor, lastDecoded, seen, stub>>
  /\ ret' = Ret("Do", kind, ZeroResult, 0)

\* Decode(searchResult) fails; searchResult is dropped
DoDecodeErr ==
  /\ UNCHANGED <<added, others>>
  /\ ~cursor.made
  /\ CanFail
  /\ CanSend
  /\ wire' = Append(wire, DoRequest(svc))
  /\ UNCHANGED <<svc, cursor, lastDecoded, seen, stub>>
  /\ ret' = Ret("Do", "ErrDecode", ZeroResult, 0)

\* a Do that stores the default keep-alive in the configuration it was given
DoOK_StoresDefault(r) ==
  /\ UNCHANGED <<added, others>>
  /\ ~cursor.made
  /\ CanReply(r)
  /\ CanSend
  /\ wire' = Append(wire, DoRequest(svc))
  /\ svc' = [svc EXCEPT !.keepAlive = IF @ = "" THEN defaultKeepAlive ELSE @]
  /\ cursor' = NewScanCursor(svc'.keepAlive, svc.pretty, svc.debug,
                             DecodeInto(ZeroResult, r))
  /\ lastDecoded' = DecodeInto(ZeroResult, r)
  /\ stub' = StubServe(stub)
  /\ UNCHANGED seen
  /\ ret' = Ret("Do", "cursor", cursor'.Results, 0)

\* the response r is decoded into new(SearchResult) and seeds the cursor
DoOK(r) ==
  /\ UNCHANGED <<added, others>>
  /\ ~cursor.made
  /\ CanReply(r)
  /\ CanSend
  /\ wire' = Append(wire, DoRequest(svc))
  /\ cursor' = NewScanCursor(svc.keepAlive, svc.pretty, svc.debug,
                             DecodeInto(ZeroResult, r))
  /\ lastDecoded' = DecodeInto(ZeroResult, r)
  /\ stub' = StubServe(stub)
  /\ UNCHANGED <<svc, seen>>
  /\ ret' = Ret("Do", "cursor", cursor'.Results, 0)

(***************************************************************************)
(* ScanCursor                                                              *)
(***************************************************************************)
\* c.Results.Hits == nil || len(c.Results.Hits.Hits) == 0 ||
\* c.Results.Hits.TotalHits == 0
\* a terminal check that forgets the total-hit count
IsTerminal_NoTotal(res) == res.Hits.nil \/ Len(res.Hits.Hits) = 0

\* a terminal-page check that does not look at the document sequence
IsTerminal_NoDocs(res) == res.Hits.nil \/ res.Hits.TotalHits = 0

IsTerminal(res) ==
  res.Hits.nil \/ Len(res.Hits.Hits) = 0 \/ res.Hits.TotalHits = 0

\* an end-of-stream check that is applied to the initiation response as well
AtEOS_AnyPage(c) == IsTerminal(c.Results)

\* an end-of-stream check that does not wait for the first step
AtEOS_FromZero(c) == c.currentPage >= 0 /\ IsTerminal(c.Results)

\* the first return of Next is taken
AtEOS(c) == c.currentPage > 0 /\ IsTerminal(c.Results)

\* the second return of Next is taken
AtNoScrollId(c) == ~AtEOS(c) /\ c.Results.ScrollId = ""

\* ScanCursor.TotalHits
TotalHits(c) == IF c.Results.Hits.nil THEN 0 ELSE c.Results.Hits.TotalHits

CallTotalHits ==
  /\ UNCHANGED <<added, others>>
  /\ cursor.made
  /\ UNCHANGED <<svc, cursor, wire, lastDecoded, seen, stub>>
  /\ ret' = Ret("TotalHits", "value", ZeroResult, TotalHits(cursor))

\* an end-of-stream return that counts the call as a step
NextEOS_Counted ==
  /\ UNCHANGED <<added, others>>
  /\ cursor.made
  /\ CanStep
  /\ AtEOS(cursor)
  /\ cursor' = [cursor EXCEPT !.currentPage = @ + 1]
  /\ seen' = [seen EXCEPT !.eos = TRUE]
  /\ stub' = StubLog(stub, EOS, ZeroResult)
  /\ UNCHANGED <<svc, wire, lastDecoded>>
  /\ ret' = Ret("Next", EOS, ZeroResult, 0)

NextEOS ==
  /\ UNCHANGED <<added, others>>
  /\ cursor.made
  /\ CanStep
  /\ AtEOS(cursor)
  /\ seen' = [seen EXCEPT !.eos = TRUE]
  /\ stub' = StubLog(stub, EOS, ZeroResult)
  /\ UNCHANGED <<svc, cursor, wire, lastDecoded>>
  /\ ret' = Ret("Next", EOS, ZeroResult, 0)

NextNoScrollId ==
  /\ UNCHANGED <<added, others>>
  /\ cursor.made
  /\ CanStep
  /\ AtNoScrollId(cursor)
  /\ stub' = StubLog(stub, ErrNoScrollId, ZeroResult)
  /\ UNCHANGED <<svc, cursor, wire, lastDecoded, seen>>
  /\ ret' = Ret("Next", ErrNoScrollId, ZeroResult, 0)

\* c.client.NewRequest fails: nothing is sent
NextNewRequestErr ==
  /\ UNCHANGED <<added, others>>
  /\ cursor.made
  /\ CanStep
  /\ ~AtEOS(cursor) /\ ~AtNoScrollId(cursor)
  /\ stub' = StubLog(stub, "ErrNewRequest", ZeroResult)
  /\ UNCHANGED <<svc, cursor, wire, lastDecoded, seen>>
  /\ ret' = Ret("Next", "ErrNewRequest", ZeroResult, 0)

\* a failed exchange that is sent a second time before the error is returned
NextTransportErr_Retry(kind) ==
  /\ UNCHANGED <<added, others>>
  /\ cursor.made
  /\ CanFail
  /\ ~AtEOS(cursor) /\ ~AtNoScrollId(cursor)
  /\ Len(wire) + 1 < MaxCalls
  /\ wire' = wire \o <<NextRequest(cursor), NextRequest(cursor)>>
  /\ UNCHANGED <<svc, cursor, lastDecoded, seen, stub>>
  /\ ret' = Ret("Next", kind, ZeroResult, 0)

\* a failed exchange that is counted as a step
NextTransportErr_Counted(kind) ==
  /\ UNCHANGED <<added, others>>
  /\ cursor.made
  /\ CanFail
  /\ ~AtEOS(cursor) /\ ~AtNoScrollId(cursor)
  /\ CanSend
  /\ wire' = Append(wire, NextRequest(cursor))
  /\ cursor' = [cursor EXCEPT !.currentPage = @ + 1]
  /\ UNCHANGED <<svc, lastDecoded, seen, stub>>
  /\ ret' = Ret("Next", kind, ZeroResult, 0)

\* c.client.c.Do fails ("ErrTransport") or checkResponse rejects the status
\* ("ErrStatus")
NextTransportErr(kind) ==
  /\ UNCHANGED <<added, others>>
  /\ cursor.made
  /\ CanFail
  /\ ~AtEOS(cursor) /\ ~AtNoScrollId(cursor)
  /\ CanSend
  /\ wire' = Append(wire, NextRequest(cursor))
  /\ UNCHANGED <<svc, cursor, lastDecoded, seen, stub>>
  /\ ret' = Ret("Next", kind, ZeroResult, 0)

\* a failed decoding that is counted as a step
NextDecodeErr_Counted(r) ==
  /\ UNCHANGED <<added, others>>
  /\ cursor.made
  /\ CanFail
  /\ ~AtEOS(cursor) /\ ~AtNoScrollId(cursor)
  /\ CanSend
  /\ wire' = Append(wire, NextRequest(cursor))
  /\ cursor' = [cursor EXCEPT !.Results = DecodeInto(@, r),
                              !.currentPage = @ + 1]
  /\ UNCHANGED <<svc, lastDecoded, seen, stub>>
  /\ ret' = Ret("Next", "ErrDecode", ZeroResult, 0)

\* Decode(c.Results) fails: the fields of the body that were well-formed (r)
\* have been written into c.Results, currentPage is not incremented
NextDecodeErr(r) ==
  /\ UNCHANGED <<added, others>>
  /\ cursor.made
  /\ CanFail
  /\ ~AtEOS(cursor) /\ ~AtNoScrollId(cursor)
  /\ CanSend
  /\ wire' = Append(wire, NextRequest(cursor))
  /\ cursor' = [cursor EXCEPT !.Results = DecodeInto(@, r)]
  /\ UNCHANGED <<svc, lastDecoded, seen, stub>>
  /\ ret' = Ret("Next", "ErrDecode", ZeroResult, 0)

\* the response r is decoded into c.Results, which is returned
NextOK(r) ==
  /\ UNCHANGED <<added, others>>
  /\ cursor.made
  /\ CanStep
  /\ CanReply(r)
  /\ ~AtEOS(cursor) /\ ~AtNoScrollId(cursor)
  /\ CanSend
  /\ wire' = Append(wire, NextRequest(cursor))
  /\ cursor' = [cursor EXCEPT !.Results = DecodeInto(@, r),
                              !.currentPage = @ + 1]
  /\ lastDecoded' = DecodeInto(ZeroResult, r)
  /\ seen' = [seen EXCEPT !.terminal = @ \/ TerminalPage(cursor'.Results),
                          !.decoded = @ + 1]
  /\ stub' = StubServe(StubLog(stub, "page", cursor'.Results))
  /\ UNCHANGED svc
  /\ ret' = Ret("Next", "page", cursor'.Results, 0)

(***************************************************************************)
(* Specifications                                                          *)
(***************************************************************************)
NoDuo == <<>>

NoRace == <<>>

NoMtv == <<>>

Init ==
  /\ svc = NewScanService
  /\ added = [indices |-> <<>>, types |-> <<>>]
  /\ duo = NoDuo
  /\ race = NoRace
  /\ mtv = NoMtv
  /\ cursor = NoCursor
  /\ wire = <<>>
  /\ ret = NoRet
  /\ lastDecoded = ZeroResult
  /\ seen = [terminal |-> FALSE, eos |-> FALSE, decoded |-> 0]
  /\ stub = NoStub

TransportErrs == {"ErrTransport", "ErrStatus"}

\* Spec: a cursor and the configuration fields it is created from, against a
\* transport that may fail or answer with any response
Next ==
  \/ \E k \in KeepAlives : Scroll(k)
  \/ \E k \in KeepAlives : KeepAlive(k)
  \/ DoNewRequestErr
  \/ \E k \in TransportErrs : DoTransportErr(k)
  \/ DoDecodeErr
  \/ \E r \in Responses : DoOK(r)
  \/ CallTotalHits
  \/ NextEOS
  \/ NextNoScrollId
  \/ NextNewRequestErr
  \/ \E k \in TransportErrs : NextTransportErr(k)
  \/ \E r \in Responses : NextDecodeErr(r)
  \/ \E r \in Responses : NextOK(r)

Spec == Init /\ [][Next]_vars

(***************************************************************************)
(* SpecScript: the stub transport is loaded with the initiation response   *)
(* and three step responses; the client may still fail to build a request. *)
(***************************************************************************)
\* responses that carry every consumed field
FullResponses ==
  {r \in Responses : r.scroll_id # Absent /\ r.hits.kind = "obj"
                       /\ r.hits.total # -1 /\ r.hits.hasDocs}

\* full responses with documents / with an empty document sequence
PageResponses == {r \in FullResponses : r.hits.docs # <<>>}

EmptyPageResponses == {r \in FullResponses : r.hits.docs = <<>>}

InitScript ==
  /\ svc = NewScanService
  /\ added = [indices |-> <<>>, types |-> <<>>]
  /\ duo = NoDuo
  /\ race = NoRace
  /\ mtv = NoMtv
  /\ cursor = NoCursor
  /\ wire = <<>>
  /\ ret = NoRet
  /\ lastDecoded = ZeroResult
  /\ seen = [terminal |-> FALSE, eos |-> FALSE, decoded |-> 0]
  /\ \E seed \in FullResponses, a \in PageResponses, b \in PageResponses,
        c \in EmptyPageResponses :
       stub = [scripted |-> TRUE, loaded |-> <<seed, a, b, c>>,
               script |-> <<seed, a, b, c>>, outcomes |-> <<>>]

NextScript ==
  \/ DoNewRequestErr
  \/ \E r \in Responses : DoOK(r)
  \/ NextEOS
  \/ NextNoScrollId
  \/ NextNewRequestErr
  \/ \E r \in Responses : NextOK(r)

SpecScript == InitScript /\ [][NextScript]_vars

\* the failures of Do after which it returns no cursor
DoFailures == {"ErrTransport", "ErrStatus", "ErrDecode"}

(***************************************************************************)
(* Two cursors side by side.  SearchResult objects live in a heap (a       *)
(* sequence, the address is the index); a cursor holds the address of its  *)
(* Results.  Beside each cursor a replica is kept that is stepped alone,   *)
(* by value, with the same answers of the server.                          *)
(***************************************************************************)
\* the answers of the server to the two cursors: complete responses and the
\* empty object
DuoResponses ==
  {r \in Responses :
     \/ r \in FullResponses /\ r.hits.total <= 1
     \/ r.scroll_id = Absent /\ r.hits = HitsAbsent}

\* what the transport does with one step call; r is what Decode has written
\* when it fails
StepEvents ==
  [kind : {"ErrNewRequest", "ErrTransport", "ErrStatus"}, r : {CHOOSE r \in DuoResponses : TRUE}]
    \cup [kind : {"ErrDecode", "page"}, r : DuoResponses]

\* ScanCursor.Next as a function of the cursor and of what the transport does:
\* the cursor after the call, the outcome and the token sent
NextResult(c, ev) ==
  IF AtEOS(c) THEN [c |-> c, out |-> [kind |-> EOS, sent |-> <<>>]]
  ELSE IF AtNoScrollId(c) THEN [c |-> c, out |-> [kind |-> ErrNoScrollId, sent |-> <<>>]]
  ELSE IF ev.kind = "ErrNewRequest" THEN [c |-> c, out |-> [kind |-> ev.kind, sent |-> <<>>]]
  ELSE IF ev.kind \in {"ErrTransport", "ErrStatus"}
    THEN [c |-> c, out |-> [kind |-> ev.kind, sent |-> <<NextBody(c).text>>]]
  ELSE IF ev.kind = "ErrDecode"
    THEN [c |-> [c EXCEPT !.Results = DecodeInto(@, ev.r)],
          out |-> [kind |-> ev.kind, sent |-> <<NextBody(c).text>>]]
  ELSE [c |-> [c EXCEPT !.Results = DecodeInto(@, ev.r), !.currentPage = @ + 1],
        out |-> [kind |-> "page", sent |-> <<NextBody(c).text>>]]

NoRef == 0

\* an allocation that hands out the first object again
NewSearchResult_Reused(heap) == 1

\* new(SearchResult): the address of a fresh object
NewSearchResult(heap) == Len(heap) + 1

\* the cursor i as a value: its Results read from the heap
DuoView(d, i) ==
  [made |-> d.cur[i].made,
   Results |-> IF d.cur[i].ref = NoRef THEN ZeroResult ELSE d.heap[d.cur[i].ref],
   keepAlive |-> d.cur[i].keepAlive, pretty |-> d.cur[i].pretty,
   debug |-> d.cur[i].debug, currentPage |-> d.cur[i].currentPage]

NoDuoCursor ==
  [made |-> FALSE, ref |-> NoRef, keepAlive |-> "", pretty |-> FALSE,
   debug |-> FALSE, currentPage |-> 0]

\* heap and cursors; solo: the replicas; agree[i]: every call on cursor i has
\* returned the outcome and sent the token of the same call on its replica;
\* last: the cursor called last and whether the other one changed
InitDuo ==
  [heap |-> <<>>,
   cur |-> <<NoDuoCursor, NoDuoCursor>>,
   solo |-> <<NoCursor, NoCursor>>,
   agree |-> <<TRUE, TRUE>>,
   last |-> [who |-> 0, otherChanged |-> FALSE]]

Other(i) == 3 - i

\* the keep-alive the caller has configured for cursor i
DuoKeepAlive(i) == IF i = 1 THEN "" ELSE "1m"

\* a Do whose result is cursor i: the response is decoded into a new
\* SearchResult, which the new cursor refers to
DuoDo(i, r) ==
  /\ ~duo.cur[i].made
  /\ LET ref == NewSearchResult(duo.heap)
         heap == IF ref > Len(duo.heap) THEN Append(duo.heap, ZeroResult) ELSE duo.heap
         d == [duo EXCEPT
                 !.heap = [heap EXCEPT ![ref] = DecodeInto(ZeroResult, r)],
                 !.cur[i] = [made |-> TRUE, ref |-> ref, keepAlive |-> DuoKeepAlive(i),
                             pretty |-> FALSE, debug |-> FALSE, currentPage |-> 0],
                 !.solo[i] = NewScanCursor(DuoKeepAlive(i), FALSE, FALSE,
                                           DecodeInto(ZeroResult, r))]
     IN duo' = [d EXCEPT !.last = [who |-> i,
                                   otherChanged |-> DuoView(d, Other(i))
                                                      # DuoView(duo, Other(i))]]
  /\ UNCHANGED <<scanVars, race, mtv>>

\* a Do that fails: no cursor
DuoDoErr(i) ==
  /\ ~duo.cur[i].made
  /\ duo.last.who # i
  /\ duo' = [duo EXCEPT !.last = [who |-> i, otherChanged |-> FALSE]]
  /\ UNCHANGED <<scanVars, race, mtv>>

\* a Next on cursor i: c.Results is the object the cursor refers to
DuoNext(i, ev) ==
  /\ duo.cur[i].made
  /\ LET res == NextResult(DuoView(duo, i), ev)
         alone == NextResult(duo.solo[i], ev)
         d == [duo EXCEPT
                 !.heap[duo.cur[i].ref] = res.c.Results,
                 !.cur[i].currentPage = res.c.currentPage,
                 !.solo[i] = alone.c,
                 !.agree[i] = @ /\ res.out = alone.out]
     IN /\ res.c.currentPage <= MaxDuoPages
        /\ duo' = [d EXCEPT !.last = [who |-> i,
                                      otherChanged |-> DuoView(d, Other(i))
                                                         # DuoView(duo, Other(i))]]
  /\ UNCHANGED <<scanVars, race, mtv>>

InitTwoCursors ==
  /\ svc = NewScanService
  /\ added = [indices |-> <<>>, types |-> <<>>]
  /\ duo = InitDuo
  /\ race = NoRace
  /\ mtv = NoMtv
  /\ cursor = NoCursor
  /\ wire = <<>>
  /\ ret = NoRet
  /\ lastDecoded = ZeroResult
  /\ seen = [terminal |-> FALSE, eos |-> FALSE, decoded |-> 0]
  /\ stub = NoStub

NextTwoCursors ==
  \E i \in 1 .. 2 :
    \/ \E r \in DuoResponses : DuoDo(i, r)
    \/ DuoDoErr(i)
    \/ \E ev \in StepEvents : DuoNext(i, ev)

SpecTwoCursors == InitTwoCursors /\ [][NextTwoCursors]_vars

(***************************************************************************)
(* One cursor, two threads, each making one Next call.  Next takes no lock, *)
(* so the calls interleave between any two accesses of the cursor: the     *)
(* checks, the read of the token for the request body, the writes of       *)
(* Decode (ScrollId, then Hits), and the load and the store of             *)
(* c.currentPage += 1.                                                     *)
(***************************************************************************)
Threads == {1, 2}

RaceResponses == {r \in FullResponses : r.hits.total <= 1}

NoResponse == [scroll_id |-> Absent, hits |-> HitsAbsent]

IdleThread == [pc |-> "idle", tok |-> "", resp |-> NoResponse, tmp |-> 0, out |-> "none"]

\* the thread after its call has returned
Returned(th, kind) == [th EXCEPT !.pc = "done", !.out = kind]

\* lines 258-265: the two checks
RaceCheck(t) ==
  /\ race.th[t].pc = "idle"
  /\ race' = [race EXCEPT !.th[t] =
                IF AtEOS(race.cur) THEN Returned(@, EOS)
                ELSE IF AtNoScrollId(race.cur) THEN Returned(@, ErrNoScrollId)
                ELSE [@ EXCEPT !.pc = "checked"]]
  /\ UNCHANGED <<scanVars, duo, mtv>>

\* lines 283-286: NewRequest fails
RaceNewRequestErr(t) ==
  /\ race.th[t].pc = "checked"
  /\ race' = [race EXCEPT !.th[t] = Returned(@, "ErrNewRequest")]
  /\ UNCHANGED <<scanVars, duo, mtv>>

\* lines 289-297: the token is read into the body and the request is sent
RaceSend(t) ==
  /\ race.th[t].pc = "checked"
  /\ race' = [race EXCEPT !.th[t].pc = "sent",
                          !.th[t].tok = NextBody(race.cur).text,
                          !.sent = Append(@, NextBody(race.cur).text)]
  /\ UNCHANGED <<scanVars, duo, mtv>>

\* lines 298-303: the transport or the status check fails
RaceTransportErr(t, kind) ==
  /\ race.th[t].pc = "sent"
  /\ race' = [race EXCEPT !.th[t] = Returned(@, kind)]
  /\ UNCHANGED <<scanVars, duo, mtv>>

\* the response r has arrived
RaceReceive(t, r) ==
  /\ race.th[t].pc = "sent"
  /\ race' = [race EXCEPT !.th[t].pc = "decoding", !.th[t].resp = r]
  /\ UNCHANGED <<scanVars, duo, mtv>>

\* line 311: Decode writes c.Results.ScrollId
RaceDecodeScrollId(t) ==
  /\ race.th[t].pc = "decoding"
  /\ race' = [race EXCEPT
                !.th[t].pc = "decodedId",
                !.cur.Results = DecodeInto(@, [scroll_id |-> race.th[t].resp.scroll_id,
                                               hits |-> HitsAbsent])]
  /\ UNCHANGED <<scanVars, duo, mtv>>

\* lines 311-313: Decode fails on what follows the token
RaceDecodeErr(t) ==
  /\ race.th[t].pc = "decodedId"
  /\ race' = [race EXCEPT !.th[t] = Returned(@, "ErrDecode")]
  /\ UNCHANGED <<scanVars, duo, mtv>>

\* line 311: Decode writes c.Results.Hits
RaceDecodeHits(t) ==
  /\ race.th[t].pc = "decodedId"
  /\ race' = [race EXCEPT
                !.th[t].pc = "decoded",
                !.cur.Results = DecodeInto(@, [scroll_id |-> Absent,
                                               hits |-> race.th[t].resp.hits])]
  /\ UNCHANGED <<scanVars, duo, mtv>>

\* line 315, first half: c.currentPage is loaded
RaceLoad(t) ==
  /\ race.th[t].pc = "decoded"
  /\ race' = [race EXCEPT !.th[t].pc = "loaded", !.th[t].tmp = race.cur.currentPage]
  /\ UNCHANGED <<scanVars, duo, mtv>>

\* an increment that is one indivisible access
RaceStore_Atomic(t) ==
  /\ race.th[t].pc = "loaded"
  /\ race' = [race EXCEPT !.th[t] = Returned(@, "page"),
                          !.cur.currentPage = @ + 1,
                          !.lastStore = t]
  /\ UNCHANGED <<scanVars, duo, mtv>>

\* line 315, second half, and 317: the loaded value plus one is stored and
\* c.Results is returned
RaceStore(t) ==
  /\ race.th[t].pc = "loaded"
  /\ race' = [race EXCEPT !.th[t] = Returned(@, "page"),
                          !.cur.currentPage = race.th[t].tmp + 1,
                          !.lastStore = t]
  /\ UNCHANGED <<scanVars, duo, mtv>>

\* cur: the cursor; th: the two calls; sent: the bodies of the requests sent;
\* lastStore: the thread that stored c.currentPage last
InitRace ==
  /\ svc = NewScanService
  /\ added = [indices |-> <<>>, types |-> <<>>]
  /\ duo = NoDuo
  /\ mtv = NoMtv
  /\ cursor = NoCursor
  /\ wire = <<>>
  /\ ret = NoRet
  /\ lastDecoded = ZeroResult
  /\ seen = [terminal |-> FALSE, eos |-> FALSE, decoded |-> 0]
  /\ stub = NoStub
  /\ \E seed \in RaceResponses :
       race = [cur |-> NewScanCursor("", FALSE, FALSE, DecodeInto(ZeroResult, seed)),
               th |-> <<IdleThread, IdleThread>>,
               sent |-> <<>>,
               lastStore |-> 0]

NextRace ==
  \E t \in Threads :
    \/ RaceCheck(t)
    \/ RaceNewRequestErr(t)
    \/ RaceSend(t)
    \/ \E kind \in TransportErrs : RaceTransportErr(t, kind)
    \/ \E r \in RaceResponses : RaceReceive(t, r)
    \/ RaceDecodeScrollId(t)
    \/ RaceDecodeErr(t)
    \/ RaceDecodeHits(t)
    \/ RaceLoad(t)
    \/ RaceStore(t)

SpecRace == InitRace /\ [][NextRace]_vars

(***************************************************************************)
(* MultiTermvectorService (mtermvector.go).  Its index and type are single *)
(* strings; preference, realtime and refresh have no setter and keep their *)
(* zero values.  sent: the requests handed to client.PerformRequest; out:  *)
(* the result of the last Do, with the index and type it was called with.  *)
(***************************************************************************)
\* index and type names as character sequences; <<>> is ""
MtvNames == {<<>>, <<"i">>, <<"t", "/">>}

NewMultiTermvectorService ==
  [pretty |-> FALSE, index |-> <<>>, typ |-> <<>>, preference |-> <<>>,
   realtime |-> "nil", refresh |-> "nil", docs |-> 0]

NoMtvOut ==
  [kind |-> "none", missing |-> <<>>, sent |-> 0, index |-> <<>>, typ |-> <<>>]

InitMtv == [s |-> NewMultiTermvectorService, sent |-> <<>>, out |-> NoMtvOut]

MtvPretty(pretty) ==
  /\ mtv' = [mtv EXCEPT !.s.pretty = pretty]
  /\ UNCHANGED <<scanVars, duo, race>>

MtvAdd(n) ==
  /\ mtv.s.docs + n <= MaxMtvDocs
  /\ mtv' = [mtv EXCEPT !.s.docs = @ + n]
  /\ UNCHANGED <<scanVars, duo, race>>

MtvIndex(index) ==
  /\ mtv' = [mtv EXCEPT !.s.index = index]
  /\ UNCHANGED <<scanVars, duo, race>>

MtvType(typ) ==
  /\ mtv' = [mtv EXCEPT !.s.typ = typ]
  /\ UNCHANGED <<scanVars, duo, race>>

\* Source: {"docs": [...]} with one entry for each document added
MtvSource(s) == [docs |-> s.docs]

RECURSIVE ExpandValue(_)
\* uritemplates.Expand on a value: characters outside the unreserved set ("/"
\* among them) are percent-encoded
ExpandValue(v) ==
  IF v = <<>> THEN <<>>
  ELSE (IF Head(v) = "/" THEN <<"%", "2", "F">> ELSE <<Head(v)>>) \o ExpandValue(Tail(v))

MtvSuffix == <<"/", "_", "m", "t", "e", "r", "m", "v", "e", "c", "t", "o", "r", "s">>

\* buildURL: the three URL forms, and the query string parameters (the
\* constant templates always expand)
MtvBuildURL(s) ==
  [path |-> IF s.index # <<>> /\ s.typ # <<>>
              THEN <<"/">> \o ExpandValue(s.index) \o <<"/">> \o ExpandValue(s.typ)
                     \o MtvSuffix
            ELSE IF s.index # <<>>
              THEN <<"/">> \o ExpandValue(s.index) \o MtvSuffix
            ELSE MtvSuffix,
   params |-> [pretty |-> IF s.pretty THEN "1" ELSE Absent,
               preference |-> IF s.preference # <<>> THEN s.preference ELSE <<>>,
               realtime |-> IF s.realtime # "nil" THEN s.realtime ELSE Absent]]

\* a Validate that requires the index only
MtvValidate_IndexOnly(s) == IF s.index = <<>> THEN <<"Index">> ELSE <<>>

\* Validate: the names of the required fields that are missing
MtvValidate(s) ==
  (IF s.index = <<>> THEN <<"Index">> ELSE <<>>)
    \o (IF s.typ = <<>> THEN <<"Type">> ELSE <<>>)

MtvRequest(s) ==
  [method |-> "GET", path |-> MtvBuildURL(s).path, params |-> MtvBuildURL(s).params,
   body |-> MtvSource(s)]

MtvOut(kind, missing, sent) ==
  [kind |-> kind, missing |-> missing, sent |-> sent,
   index |-> mtv.s.index, typ |-> mtv.s.typ]

\* Do, Validate fails: "missing required fields: [...]"
MtvDoInvalid ==
  /\ MtvValidate(mtv.s) # <<>>
  /\ mtv' = [mtv EXCEPT !.out = MtvOut("ErrValidate", MtvValidate(mtv.s), 0)]
  /\ UNCHANGED <<scanVars, duo, race>>

\* Do, PerformRequest ("ErrPerform") or json.Unmarshal ("ErrUnmarshal") fails,
\* or the response is returned ("response")
MtvDoRequest(kind) ==
  /\ MtvValidate(mtv.s) = <<>>
  /\ Len(mtv.sent) < MaxMtvCalls
  /\ mtv' = [mtv EXCEPT !.sent = Append(@, MtvRequest(mtv.s)),
                        !.out = MtvOut(kind, <<>>, 1)]
  /\ UNCHANGED <<scanVars, duo, race>>

InitTermvectors ==
  /\ svc = NewScanService
  /\ added = [indices |-> <<>>, types |-> <<>>]
  /\ duo = NoDuo
  /\ race = NoRace
  /\ mtv = InitMtv
  /\ cursor = NoCursor
  /\ wire = <<>>
  /\ ret = NoRet
  /\ lastDecoded = ZeroResult
  /\ seen = [terminal |-> FALSE, eos |-> FALSE, decoded |-> 0]
  /\ stub = NoStub

NextTermvectors ==
  \/ \E pretty \in BOOLEAN : MtvPretty(pretty)
  \/ \E n \in 0 .. MaxMtvDocs : MtvAdd(n)
  \/ \E index \in MtvNames : MtvIndex(index)
  \/ \E typ \in MtvNames : MtvType(typ)
  \/ MtvDoInvalid
  \/ \E kind \in {"ErrPerform", "ErrUnmarshal", "response"} : MtvDoRequest(kind)

SpecTermvectors == InitTermvectors /\ [][NextTermvectors]_vars

(***************************************************************************)
(* The documented iteration loop (the usage comment of Next): the caller   *)
(* obtains a cursor and calls Next until it returns EOS, handling every    *)
(* other error by going round again.  The server holds k pages with        *)
(* documents and sends an empty page after them.                           *)
(***************************************************************************)
\* responses told apart by what Next tests: a total of zero or not
LoopResponses == {r \in FullResponses : r.hits.total <= 1}

LoopPages == {r \in LoopResponses : r.hits.docs # <<>>}

LoopEmptyPages == {r \in LoopResponses : r.hits.docs = <<>>}

RECURSIVE PageSeqs(_)
\* the sequences of k pages with documents
PageSeqs(k) ==
  IF k = 0 THEN {<<>>}
  ELSE {Append(ps, p) : ps \in PageSeqs(k - 1), p \in LoopPages}

InitLoop ==
  /\ svc = NewScanService
  /\ added = [indices |-> <<>>, types |-> <<>>]
  /\ duo = NoDuo
  /\ race = NoRace
  /\ mtv = NoMtv
  /\ cursor = NoCursor
  /\ wire = <<>>
  /\ ret = NoRet
  /\ lastDecoded = ZeroResult
  /\ seen = [terminal |-> FALSE, eos |-> FALSE, decoded |-> 0]
  /\ \E seed \in LoopResponses, k \in 0 .. MaxPages, last \in LoopEmptyPages :
       \E ps \in PageSeqs(k) :
         stub = [scripted |-> TRUE, loaded |-> <<seed>> \o ps \o <<last>>,
                 script |-> <<seed>> \o ps \o <<last>>, outcomes |-> <<>>]

\* the initiation succeeds
CallerDo == \E r \in Responses : DoOK(r)

\* one round of the loop; the caller leaves the loop on EOS
CallerLoop ==
  /\ ~seen.eos
  /\ \/ NextEOS
     \/ NextNoScrollId
     \/ \E r \in Responses : NextOK(r)

NextLoop == CallerDo \/ CallerLoop

\* the caller does not stop between the calls
SpecLoop ==
  InitLoop /\ [][NextLoop]_vars /\ WF_vars(CallerDo) /\ WF_vars(CallerLoop)

(***************************************************************************)
(* SpecBuild: one configuration, built by the builder methods and then     *)
(* passed to Do once.                                                      *)
(***************************************************************************)
\* no request has been sent for this configuration yet
Configuring == wire = <<>> /\ ~cursor.made

\* the lists of names a caller passes to Indices / Types in one call
NameLists == {<<>>} \cup {<<n>> : n \in Names} \cup {<<n, m>> : n \in Names, m \in Names}

NextBuild ==
  \/ \E n \in Names : Configuring /\ Index(n)
  \/ \E ns \in NameLists : Configuring /\ Indices(ns)
  \/ \E n \in Names : Configuring /\ Type(n)
  \/ \E ns \in NameLists : Configuring /\ Types(ns)
  \/ \E k \in KeepAlives : Configuring /\ Scroll(k)
  \/ \E k \in KeepAlives : Configuring /\ KeepAlive(k)
  \/ \E q \in Queries : Configuring /\ Query(q)
  \/ \E b \in BOOLEAN : Configuring /\ Pretty(b)
  \/ \E b \in BOOLEAN : Configuring /\ Debug(b)
  \/ \E n \in 0 .. MaxTotal : Configuring /\ Size(n)
  \/ Configuring /\ DoNewRequestErr
  \/ \E k \in TransportErrs : Configuring /\ DoTransportErr(k)
  \/ Configuring /\ DoDecodeErr
  \/ \E r \in Responses : Configuring /\ DoOK(r)

SpecBuild == Init /\ [][NextBuild]_vars

(***************************************************************************)
(* Properties                                                              *)
(***************************************************************************)
\* the last request sent
LastRequest == wire[Len(wire)]

\* C1: a step call made after a step has returned a terminal page (no hits
\* data, no documents, or a total-hit count of zero) returns EOS and sends
\* nothing.
C1_ExhaustedReturnsEOS ==
  (ret.op = "Next" /\ ret.afterTerminal) => (ret.kind = EOS /\ ret.sent = 0)

\* C1 witness: a second EOS after a page with documents and a zero total.
C1_Witness ==
  /\ ret.op = "Next" /\ ret.afterTerminal /\ ret.afterEOS /\ ret.kind = EOS
  /\ cursor.Results.Hits.Hits # <<>>

\* C2 as stated: a step call on a cursor whose stored scroll token is empty
\* fails with ErrNoScrollId, whatever the step counter and the stored page,
\* and sends nothing.
C2_EmptyTokenAlwaysErrNoScrollId ==
  (ret.op = "Next" /\ ret.pre.ScrollId = "")
    => (ret.kind = ErrNoScrollId /\ ret.sent = 0)

\* C2 amended: a step call on a cursor whose stored scroll token is empty
\* sends nothing; it returns EOS when the step counter is above 0 and the
\* stored page is terminal, and fails with ErrNoScrollId otherwise.
C2_EmptyTokenErrUnlessExhausted ==
  (ret.op = "Next" /\ ret.pre.ScrollId = "")
    => /\ ret.sent = 0
       /\ ret.kind = IF ret.pre.currentPage > 0 /\ ret.pre.terminal
                       THEN EOS ELSE ErrNoScrollId

\* C2 witness: ErrNoScrollId from a cursor that has already stepped.
C2_Witness ==
  /\ ret.op = "Next" /\ ret.pre.ScrollId = "" /\ ret.kind = ErrNoScrollId
  /\ ret.pre.currentPage > 0

\* the outcomes of the step calls that got as far as the transport
Sent(o) == o.kind # "ErrNewRequest"

Yielded == SelectSeq(stub.outcomes, Sent)

\* the scripted scenario of C3: the cursor is seeded with a non-empty token;
\* A and B carry documents, a non-zero total and a non-empty token; C carries
\* an empty document sequence
Scenario ==
  /\ stub.scripted
  /\ stub.loaded[1].scroll_id # ""
  /\ \A i \in 2 .. 3 :
       /\ stub.loaded[i].hits.docs # <<>>
       /\ stub.loaded[i].hits.total # 0
       /\ stub.loaded[i].scroll_id # ""
  /\ stub.loaded[4].hits.docs = <<>>

PageOutcome(r) == [kind |-> "page", page |-> DecodeInto(ZeroResult, r)]

EOSOutcome == [kind |-> EOS, page |-> ZeroResult]

\* C3 as stated: with the transport answering A, B, C (empty), the step calls
\* yield A, B, EOS, EOS, ...; C is never returned as a page.
C3_YieldsABThenEOS ==
  Scenario =>
    \A i \in 1 .. Len(Yielded) :
      Yielded[i] = IF i <= 2 THEN PageOutcome(stub.loaded[i + 1]) ELSE EOSOutcome

\* C3 amended: with the transport answering A, B, C (empty), the step calls
\* that reach the transport yield A, B and then C itself, as a page with an
\* empty document sequence and no error; every step call after that yields
\* EOS, and only three continuation requests are sent.
C3_YieldsABCThenEOS ==
  Scenario =>
    /\ \A i \in 1 .. Len(Yielded) :
         Yielded[i] = IF i <= 3 THEN PageOutcome(stub.loaded[i + 1]) ELSE EOSOutcome
    /\ Len(wire) <= 4

\* C3 witness: A, B, C and two EOS have been yielded.
C3_Witness == Scenario /\ Len(Yielded) >= 5 /\ Yielded[5] = EOSOutcome

\* C4: a step call made after a step has returned EOS returns EOS, leaves the
\* cursor (stored page, scroll token, step counter) as it was and sends nothing.
C4_EOSIdempotent ==
  (ret.op = "Next" /\ ret.afterEOS)
    => (ret.kind = EOS /\ ret.sent = 0 /\ ~ret.changed)

\* C4 witness: a step call after EOS.
C4_Witness == ret.op = "Next" /\ ret.afterEOS /\ ret.kind = EOS

\* C5: the body of a continuation request is the raw scroll token of the most
\* recently received response (initiation or last successful step).
C5_BodyIsLatestToken ==
  (ret.op = "Next" /\ ret.sent = 1)
    => LastRequest.body = [raw |-> TRUE, text |-> ret.pre.respToken, query |-> Absent]

\* C6: after a successful step the stored page, which is the page returned,
\* is exactly what the response of that step decodes to; nothing of the
\* previous page survives.
C6_PageIsDecodedResponse ==
  (ret.op = "Next" /\ ret.kind = "page")
    => (cursor.Results = lastDecoded /\ ret.page = lastDecoded)

\* C7: TotalHits returns the total-hit count of the most recently received
\* response (0 when that carries no hit metadata, as before any was received),
\* changes nothing and sends nothing.
C7_TotalHitsOfLatestResponse ==
  ret.op = "TotalHits"
    => /\ ret.value = (IF lastDecoded.Hits.nil THEN 0 ELSE lastDecoded.Hits.TotalHits)
       /\ ret.sent = 0
       /\ ~ret.changed

\* the requests of wire that are initiation requests / continuation requests
IsInit(i) == wire[i].params.search_type = "scan"

IsScroll(i) == wire[i].path = NextPath

\* C8: every continuation request carries the TTL of the initiation request
\* that created the cursor (the last initiation request sent), and that TTL is
\* the caller's keep-alive when one was set and "5m" when none was.
C8_SameTTL ==
  cursor.made =>
    \E c \in 1 .. Len(wire) :
      /\ IsInit(c)
      /\ \A i \in (c + 1) .. Len(wire) :
           IsScroll(i) /\ wire[i].params.scroll = wire[c].params.scroll
      /\ wire[c].params.scroll =
           (IF cursor.keepAlive = "" THEN "5m" ELSE cursor.keepAlive)

\* C8 witness: two continuation requests with an explicit TTL, sent by a
\* cursor whose configuration has since been reset to the default.
C8_Witness ==
  /\ cursor.made /\ Len(wire) >= 3
  /\ IsScroll(Len(wire)) /\ IsScroll(Len(wire) - 1)
  /\ LastRequest.params.scroll = "1m"
  /\ svc.keepAlive = ""

\* C9: a step call sends at most one request: exactly one when it returns a
\* page, a transport failure or a decode failure, none when it returns EOS or
\* ErrNoScrollId.
C9_AtMostOneCall ==
  ret.op = "Next" =>
    /\ ret.sent <= 1
    /\ ret.kind \in {"page", "ErrTransport", "ErrStatus", "ErrDecode"} => ret.sent = 1
    /\ ret.kind \in {EOS, ErrNoScrollId} => ret.sent = 0

\* C9 witness: a step call that failed in the transport.
C9_Witness == ret.op = "Next" /\ ret.kind = "ErrTransport" /\ ret.sent = 1

\* the path the claim describes: a segment is there only if its list is not
\* empty
ClaimedPath(s) ==
  LET indexPart == [i \in 1 .. Len(s.indices) |-> cleanPathString(s.indices[i])]
      typesPart == [i \in 1 .. Len(s.types) |-> cleanPathString(s.types[i])]
  IN (IF s.indices # <<>> THEN <<"/">> \o Join(indexPart, <<",">>) ELSE <<>>)
       \o (IF s.types # <<>> THEN <<"/">> \o Join(typesPart, <<",">>) ELSE <<>>)
       \o <<"/", "_", "s", "e", "a", "r", "c", "h">>

NoDoubleSlash(p) == \A k \in 1 .. (Len(p) - 1) : ~(p[k] = "/" /\ p[k + 1] = "/")

\* C10: the path of the initiation request has a segment for the indices and
\* one for the types only when the list is not empty, and never holds "//".
C10_PathOmitsEmptySegments ==
  (ret.op = "Do" /\ ret.sent = 1)
    => (LastRequest.path = ClaimedPath(svc) /\ NoDoubleSlash(LastRequest.path))

\* the path Do builds from lists of index names and type names
PathOf(indices, types) ==
  LET esc(names) == [i \in 1 .. Len(names) |-> cleanPathString(names[i])]
  IN <<"/">> \o Join(esc(indices), <<",">>)
       \o (IF types # <<>> THEN <<"/">> \o Join(esc(types), <<",">>) ELSE <<>>)
       \o <<"/", "_", "s", "e", "a", "r", "c", "h">>

\* C11: the accumulated index and type lists are the names passed to Index /
\* Indices and to Type / Types in call order, however they were grouped into
\* calls, and the path of the initiation request is built from exactly these.
C11_NamesAccumulateInOrder ==
  /\ svc.indices = added.indices
  /\ svc.types = added.types
  /\ (ret.op = "Do" /\ ret.sent = 1)
       => LastRequest.path = PathOf(added.indices, added.types)

\* C11 witness: a request for two different indices and two different types.
C11_Witness ==
  /\ ret.op = "Do" /\ ret.sent = 1
  /\ Len(added.indices) = 2 /\ added.indices[1] # added.indices[2]
  /\ Len(added.types) = 2 /\ added.types[1] # added.types[2]

\* C12: Do sends at most one request and leaves the configuration as it was;
\* when the transport, the status check or the decoding fails, one request has
\* been sent and no cursor is returned.
C12_DoLeavesConfiguration ==
  ret.op = "Do" =>
    /\ ret.sent <= 1
    /\ ~ret.cfgChanged
    /\ ret.kind \in DoFailures
         => (ret.sent = 1 /\ ~cursor.made /\ ~ret.changed /\ ret.page = ZeroResult)
    /\ ret.kind = "cursor" => (ret.sent = 1 /\ cursor.made)

\* C12 witness: a Do of a configuration with names, keep-alive, size and flags
\* set fails in decoding.
C12_Witness ==
  /\ ret.op = "Do" /\ ret.kind = "ErrDecode"
  /\ svc.indices # <<>> /\ svc.types # <<>> /\ svc.keepAlive # ""
  /\ svc.size > 0 /\ svc.pretty /\ svc.debug /\ svc.query = "q1"

\* a step of a cursor whose counter is 0, whose stored page is terminal and
\* whose token is not empty
FreshTerminalStep ==
  /\ ret.op = "Next"
  /\ ret.pre.currentPage = 0 /\ ret.pre.terminal /\ ret.pre.ScrollId # ""

\* C13 as stated: a step of a cursor with counter 0, a terminal stored page and
\* a non-empty token sends exactly one request and does not return EOS.
C13_FreshStepSendsOne ==
  FreshTerminalStep => (ret.sent = 1 /\ ret.kind # EOS)

\* C13 amended: such a step does not return EOS and sends exactly one request,
\* unless the request cannot be constructed, and then it sends none.
C13_FreshStepSendsOneIfBuilt ==
  FreshTerminalStep =>
    /\ ret.kind # EOS /\ ret.kind # ErrNoScrollId
    /\ ret.sent = (IF ret.kind = "ErrNewRequest" THEN 0 ELSE 1)
    /\ ret.sent = 1 => (LastRequest.path = NextPath
                          /\ LastRequest.body.text = ret.pre.ScrollId)

\* C13 witness: the first step of a cursor seeded with a response without hits
\* data returns a page.
C13_Witness ==
  /\ FreshTerminalStep /\ ret.kind = "page"
  /\ Len(wire) = 2 /\ IsInit(1) /\ IsScroll(2)

\* C14: a step that fails in the transport or on the status leaves the cursor
\* as it was, the token it sent still stored, and a step that follows it sends
\* that token again; no step that returns an error or EOS changes the counter.
C14_FailedStepKeepsCursor ==
  /\ [](ret.op = "Next" =>
          /\ ret.kind \in TransportErrs
               => /\ ~ret.changed
                  /\ ret.sent = 1
                  /\ cursor.Results.ScrollId = LastRequest.body.text
          /\ ret.kind # "page" => cursor.currentPage = ret.pre.currentPage)
  /\ [][(ret.op = "Next" /\ ret.kind \in TransportErrs
           /\ ret'.op = "Next" /\ Len(wire') > Len(wire))
          => (Len(wire') = Len(wire) + 1
                /\ wire'[Len(wire')] = wire[Len(wire)])]_vars

\* C14 witness: two steps in a row have failed after sending the token of the
\* initiation response, the second one on the status.
C14_Witness ==
  /\ ret.op = "Next" /\ ret.kind = "ErrStatus" /\ ret.sent = 1
  /\ Len(wire) = 3 /\ wire[3] = wire[2] /\ LastRequest.body.text = "t1"
  /\ cursor.currentPage = 0

\* C15: the counter is never negative, is 0 when the cursor is made, is one more
\* than before after a step that returns a page and as before after any other
\* call, and equals the number of continuation responses decoded.
C15_CounterCountsPages ==
  /\ cursor.currentPage >= 0
  /\ cursor.currentPage = seen.decoded
  /\ ret.op = "Do" => cursor.currentPage = 0
  /\ ret.op \in {"Next", "TotalHits"} =>
       cursor.currentPage = ret.pre.currentPage + (IF ret.kind = "page" THEN 1 ELSE 0)

\* C15 witness: a page was returned, and a step whose decoding failed after it
\* changed the stored page and left the counter at 1.
C15_Witness ==
  /\ ret.op = "Next" /\ ret.kind = "ErrDecode" /\ ret.changed
  /\ cursor.currentPage = 1 /\ seen.decoded = 1 /\ Len(wire) = 3

\* a page whose total-hit count is zero although it carries documents
Contradictory(p) == ~p.Hits.nil /\ p.Hits.TotalHits = 0 /\ p.Hits.Hits # <<>>

\* C16: a step does not return a response that is a contradictory page as a
\* page, and no step returns EOS because of such a response.
C16_ContradictoryPageRejected ==
  ret.op = "Next" =>
    /\ ret.kind = "page" => ~Contradictory(lastDecoded)
    /\ ret.kind = EOS => ~Contradictory(lastDecoded)

\* the hypothesis of C17: the cursor starts with a non-empty token, every
\* response carries a non-empty token, the pages before the last carry
\* documents and a total that counts them, and the last page is empty
LoopScenario ==
  /\ stub.scripted
  /\ \A i \in 1 .. Len(stub.loaded) : stub.loaded[i].scroll_id # ""
  /\ \A i \in 2 .. (Len(stub.loaded) - 1) :
       stub.loaded[i].hits.docs # <<>> /\ stub.loaded[i].hits.total # 0
  /\ stub.loaded[Len(stub.loaded)].hits.docs = <<>>

C18_CursorsIndependent ==
  /\ ~duo.last.otherChanged
  /\ \A i \in 1 .. 2 :
       /\ duo.cur[i].made => DuoView(duo, i) = duo.solo[i]
       /\ duo.agree[i]

\* C18 witness: both cursors have returned pages, the first one last, and they
\* hold different pages, tokens and counters.
C18_Witness ==
  /\ duo.cur[1].made /\ duo.cur[2].made /\ duo.last.who = 1
  /\ duo.cur[1].currentPage = 2 /\ duo.cur[2].currentPage = 1
  /\ DuoView(duo, 1).Results.Hits # DuoView(duo, 2).Results.Hits
  /\ DuoView(duo, 1).Results.ScrollId = "t1"
  /\ DuoView(duo, 2).Results.ScrollId = "t2"

\* the threads whose call has returned a page
PagesReturned == {t \in Threads : race.th[t].out = "page"}

\* C19: nothing excludes one call from the other.  A request carries the token
\* stored when it was built, whatever call is in progress; the counter after a
\* store is one more than the value the storing thread had loaded, whatever
\* was stored in between, so it is at least 1 and at most the number of pages
\* returned; and the stored token is that of the seed or of a response.
C19_StepsNotExcluded ==
  /\ \A t \in Threads :
       race.th[t].pc \in {"sent", "decoding"} =>
         \E k \in 1 .. Len(race.sent) : race.sent[k] = race.th[t].tok
  /\ race.lastStore # 0 =>
       /\ race.cur.currentPage = race.th[race.lastStore].tmp + 1
       /\ race.cur.currentPage >= 1
  /\ race.cur.currentPage <= Cardinality(PagesReturned)

\* C19 witness: both calls have sent the same token and both have returned a
\* page, the counter is 1, and the stored token is that of the first thread's
\* response while the stored documents are those of the second's.
C19_Witness ==
  /\ PagesReturned = Threads
  /\ Len(race.sent) = 2 /\ race.sent[1] = race.sent[2] /\ race.sent[1] # ""
  /\ race.cur.currentPage = 1
  /\ race.th[1].resp.scroll_id # race.th[2].resp.scroll_id
  /\ race.th[1].resp.hits.docs # race.th[2].resp.hits.docs
  /\ race.cur.Results.ScrollId = race.th[1].resp.scroll_id
  /\ race.cur.Results.Hits.Hits = race.th[2].resp.hits.docs

\* the number of "/" in a path: 1 in /_mtermvectors, 2 in the index-only
\* form, 3 in the form with index and type
Slashes(p) == Cardinality({k \in 1 .. Len(p) : p[k] = "/"})

\* C20: a Do with an empty Index or Type returns the validation error that
\* names exactly the empty ones and hands nothing to the client; every other
\* Do hands over one request; and every request ever handed over has the
\* /{index}/{type}/_mtermvectors form.
C20_DoRequiresIndexAndType ==
  /\ mtv.out.kind # "none" =>
       IF mtv.out.index = <<>> \/ mtv.out.typ = <<>>
         THEN /\ mtv.out.kind = "ErrValidate" /\ mtv.out.sent = 0
              /\ mtv.out.missing # <<>>
              /\ \A f \in {"Index", "Type"} :
                   (\E k \in 1 .. Len(mtv.out.missing) : mtv.out.missing[k] = f)
                     <=> (IF f = "Index" THEN mtv.out.index ELSE mtv.out.typ) = <<>>
         ELSE mtv.out.kind # "ErrValidate" /\ mtv.out.sent = 1
  /\ \A k \in 1 .. Len(mtv.sent) :
       /\ Slashes(mtv.sent[k].path) = 3
       /\ mtv.sent[k].path[2] # "/"
       /\ mtv.sent[k].method = "GET"

\* C20 witness: a request was sent for an index and a type, and a later Do
\* with the type cleared has returned the validation error naming Type.
C20_Witness ==
  /\ Len(mtv.sent) = 1
  /\ mtv.out.kind = "ErrValidate" /\ mtv.out.missing = <<"Type">>
  /\ mtv.out.index = <<"t", "/">> /\ mtv.s.docs = 1 /\ mtv.s.pretty

====
